---- MODULE Spec2Model ----
(***************************************************************************)
(* A model of the two programs of the repository:                          *)
(*   src/src/gatt-client.c     the D-Bus mirror of a remote GATT database  *)
(*                             (struct btd_gatt_client)                    *)
(*   src/tools/btgatt-server.c the test GATT server (struct server)        *)
(* Each callback or D-Bus method handler of the source is one action.      *)
(***************************************************************************)
EXTENDS Integers, Sequences, FiniteSets, Bags, TLC

(***************************************************************************)
(* Bounds of the client model.                                             *)
(***************************************************************************)
\* number of set_chrcs_ready idle sources scheduled at a time
MaxIdle == 1
\* number of long reads in flight at a time
MaxOps == 2
\* number of registrations that fail for lack of resources in one ready event
MaxFail == 1

(***************************************************************************)
(* The remote databases a bt_gatt_client can hold: what                    *)
(* bt_gatt_service_iter / bt_gatt_characteristic_iter yield, in handle     *)
(* order.  A service is [start, end, chrcs], a characteristic is           *)
(* [handle, value_handle, descs], a descriptor is its handle.              *)
(***************************************************************************)
Svc(s, e, cs) == [start |-> s, end |-> e, chrcs |-> cs]
Chr(h, v, ds) == [handle |-> h, value_handle |-> v, descs |-> ds]

SvcA == Svc(1, 7, <<Chr(2, 3, <<4, 5>>), Chr(6, 7, <<>>)>>)
SvcB == Svc(8, 9, <<>>)

Dbs == { <<SvcA>>, <<SvcB>>, <<SvcA, SvcB>> }

\* the values a long read can deliver
Values == { <<>>, <<1>>, <<2>> }

\* the (start, end) ranges a Service Changed event can carry
Ranges == { <<1, 7>>, <<8, 65535>> }

(***************************************************************************)
(* D-Bus object paths.  A service is exported at .../serviceXXXX, a        *)
(* characteristic at .../serviceXXXX/charYYYY, a descriptor at             *)
(* .../serviceXXXX/charYYYY/descZZZZ: the path is the tuple of handles.    *)
(***************************************************************************)
service_path(start_handle) == <<start_handle>>
chrc_path(spath, chrc_handle) == Append(spath, chrc_handle)
desc_path(cpath, desc_handle) == Append(cpath, desc_handle)

\* every path the export of database db asks the bus to register
PathsOfSvc(s) ==
    {service_path(s.start)}
    \cup { chrc_path(service_path(s.start), s.chrcs[i].handle) : i \in DOMAIN s.chrcs }
    \cup UNION { { desc_path(chrc_path(service_path(s.start), s.chrcs[i].handle),
                               s.chrcs[i].descs[j]) :
                     j \in DOMAIN s.chrcs[i].descs } : i \in DOMAIN s.chrcs }
PathsOf(db) == UNION { PathsOfSvc(db[i]) : i \in DOMAIN db }

VARIABLES
    gatt,       \* client->gatt: 0 is NULL, 1 a reference to a bt_gatt_client
    services,   \* client->services, the queue of struct service
    exported,   \* the object paths registered on the bus
    ops,        \* the struct chrc_dbus_op of the long reads in flight: a bag of op->chrc
    idle,       \* how many set_chrcs_ready idle sources are scheduled
    alive,      \* the struct btd_gatt_client has not been freed
    crashed,    \* the process died on an access to freed memory
    last,       \* the handler that ran last, with its arguments
    \* ---- struct server of btgatt-server.c ----
    device_name,        \* server->device_name, the bytes of the buffer
    name_len,           \* server->name_len
    name_freed,         \* server->device_name points to a block that was freed
    svc_chngd_enabled,  \* server->svc_chngd_enabled
    \* ---- the peer's procedures on the Device Name and the last handler ----
    mtu,        \* the ATT MTU of the bearer
    proc,       \* the Read Long or the long write the peer is running
    slast       \* the server handler that ran last, with what it answered or sent

cvars == <<gatt, services, exported, ops, idle, alive, crashed, last>>
svars == <<device_name, name_len, name_freed, svc_chngd_enabled, mtu, proc, slast>>
vars == <<cvars, svars>>

(***************************************************************************)
(* Export of the mirror: descriptor_create .. create_services.             *)
(* exp is the set of registered paths; fail is the set of paths whose      *)
(* registration fails for lack of resources in this ready event.           *)
(***************************************************************************)
NoObject == [path |-> <<>>]

\* registration fails when the path is already taken or resources run out
g_dbus_register_interface(path, exp, fail) == path \notin exp /\ path \notin fail

descriptor_create(desc_handle, chrc, exp, fail) ==
    LET path == desc_path(chrc.path, desc_handle) IN
    IF g_dbus_register_interface(path, exp, fail)
    THEN [ok |-> TRUE, desc |-> [handle |-> desc_handle, path |-> path],
          exp |-> exp \cup {path}]
    ELSE [ok |-> FALSE, desc |-> NoObject, exp |-> exp]

unregister_descriptor(desc, exp) == exp \ {desc.path}

characteristic_create(chrc_data, service, exp, fail) ==
    LET path == chrc_path(service.path, chrc_data.handle) IN
    IF g_dbus_register_interface(path, exp, fail)
    THEN [ok |-> TRUE,
          chrc |-> [path |-> path,
                    handle |-> chrc_data.handle,
                    value_handle |-> chrc_data.value_handle,
                    in_read |-> FALSE, value_known |-> FALSE, value |-> <<>>,
                    descs |-> <<>>],
          exp |-> exp \cup {path}]
    ELSE [ok |-> FALSE, chrc |-> NoObject, exp |-> exp]

\* an unregister_characteristic that leaves the descriptors of the chrc behind
unregister_characteristic_only(chrc, exp) == exp \ {chrc.path}

\* queue_remove_all(chrc->descs, ..., unregister_descriptor), then the chrc itself
unregister_characteristic(chrc, exp) ==
    (exp \ { chrc.descs[k].path : k \in DOMAIN chrc.descs }) \ {chrc.path}

\* a service whose Characteristics property is filled from the start
service_create_ready(svc_data, exp, fail) ==
    LET path == service_path(svc_data.start) IN
    IF g_dbus_register_interface(path, exp, fail)
    THEN [ok |-> TRUE,
          service |-> [path |-> path,
                       start_handle |-> svc_data.start,
                       end_handle |-> svc_data.end,
                       chrcs |-> <<>>, chrcs_ready |-> TRUE],
          exp |-> exp \cup {path}]
    ELSE [ok |-> FALSE, service |-> NoObject, exp |-> exp]

service_create(svc_data, exp, fail) ==
    LET path == service_path(svc_data.start) IN
    IF g_dbus_register_interface(path, exp, fail)
    THEN [ok |-> TRUE,
          service |-> [path |-> path,
                       start_handle |-> svc_data.start,
                       end_handle |-> svc_data.end,
                       chrcs |-> <<>>, chrcs_ready |-> FALSE],
          exp |-> exp \cup {path}]
    ELSE [ok |-> FALSE, service |-> NoObject, exp |-> exp]

\* an unregister_service that leaves the characteristics of the service behind
unregister_service_only(service, exp) == exp \ {service.path}

\* queue_remove_all(service->chrcs, ..., unregister_characteristic), then the service
unregister_service(service, exp) ==
    (exp \ UNION { {service.chrcs[j].path}
                   \cup { service.chrcs[j].descs[k].path : k \in DOMAIN service.chrcs[j].descs } :
                   j \in DOMAIN service.chrcs }) \ {service.path}

RECURSIVE create_descriptors(_, _, _, _, _)
create_descriptors(descs, i, dbus_chrc, exp, fail) ==
    IF i > Len(descs)
    THEN [ok |-> TRUE, chrc |-> dbus_chrc, exp |-> exp]
    ELSE LET r == descriptor_create(descs[i], dbus_chrc, exp, fail) IN
         IF ~r.ok
         THEN [ok |-> FALSE, chrc |-> dbus_chrc, exp |-> exp]
         ELSE create_descriptors(descs, i + 1,
                                 [dbus_chrc EXCEPT !.descs = Append(@, r.desc)],
                                 r.exp, fail)

RECURSIVE create_characteristics(_, _, _, _, _)
create_characteristics(chrcs, i, dbus_service, exp, fail) ==
    IF i > Len(chrcs)
    THEN [ok |-> TRUE, service |-> dbus_service, exp |-> exp]
    ELSE LET c == characteristic_create(chrcs[i], dbus_service, exp, fail) IN
         IF ~c.ok
         THEN [ok |-> FALSE, service |-> dbus_service, exp |-> exp]
         ELSE LET d == create_descriptors(chrcs[i].descs, 1, c.chrc, c.exp, fail) IN
              IF ~d.ok
              THEN [ok |-> FALSE, service |-> dbus_service,
                    exp |-> unregister_characteristic(d.chrc, d.exp)]
              ELSE create_characteristics(chrcs, i + 1,
                       [dbus_service EXCEPT !.chrcs = Append(@, d.chrc)],
                       d.exp, fail)

\* the loop of create_services over the service iterator
RECURSIVE create_services(_, _, _, _, _)
create_services(db, i, svcs, exp, fail) ==
    IF i > Len(db)
    THEN [services |-> svcs, exp |-> exp]
    ELSE LET s == service_create(db[i], exp, fail) IN
         IF ~s.ok
         THEN create_services(db, i + 1, svcs, exp, fail)
         ELSE LET c == create_characteristics(db[i].chrcs, 1, s.service, s.exp, fail) IN
              IF ~c.ok
              THEN create_services(db, i + 1, svcs,
                                   unregister_service(c.service, c.exp), fail)
              ELSE create_services(db, i + 1, Append(svcs, c.service), c.exp, fail)

\* queue_remove_all(client->services, NULL, NULL, unregister_service)
RECURSIVE remove_all_services(_, _)
remove_all_services(svcs, exp) ==
    IF svcs = <<>> THEN exp
    ELSE remove_all_services(Tail(svcs), unregister_service(Head(svcs), exp))

(***************************************************************************)
(* Helpers on the mirror.  A characteristic is pointed to by its path; the  *)
(* op->chrc of a read in flight becomes Freed when its characteristic is   *)
(* unregistered, which frees it (characteristic_free).                     *)
(***************************************************************************)
AllChrcs(svcs) == UNION { { svcs[i].chrcs[j] : j \in DOMAIN svcs[i].chrcs } : i \in DOMAIN svcs }

Ptr(c) == c.path

Freed == <<0>>

\* the ops in flight after the characteristics of svcs were freed
Dangle(pending, svcs) ==
    LET gone == { Ptr(c) : c \in AllChrcs(svcs) }
        kept == { p \in BagToSet(pending) : p \notin gone /\ p # Freed }
        n == BagCardinality(pending) - BagCardinality([p \in kept |-> pending[p]])
    IN [p \in kept |-> pending[p]] (+) (IF n > 0 THEN [p \in {Freed} |-> n] ELSE EmptyBag)

ChrcAt(ptr) == CHOOSE c \in AllChrcs(services) : Ptr(c) = ptr

SetChrc(svcs, newc) ==
    [i \in DOMAIN svcs |->
        [svcs[i] EXCEPT !.chrcs =
            [j \in DOMAIN svcs[i].chrcs |->
                IF Ptr(svcs[i].chrcs[j]) = Ptr(newc) THEN newc ELSE svcs[i].chrcs[j]]]]

Event(cb, a, b) == [cb |-> cb, a |-> a, b |-> b]

ClientInit ==
    /\ gatt = 0
    /\ services = <<>>
    /\ exported = {}
    /\ ops = EmptyBag
    /\ idle = 0
    /\ alive = TRUE
    /\ crashed = FALSE
    /\ last = Event("btd_gatt_client_new", 0, 0)

(***************************************************************************)
(* gatt_ready_cb: takes a reference on the new bt_gatt_client and runs     *)
(* create_services, which exports the services and schedules the idle      *)
(* callback set_chrcs_ready.                                               *)
(***************************************************************************)
\* every registration this ready event attempts succeeds
AllRegistered(db, fail, exp) == fail = {} /\ PathsOf(db) \cap exp = {}

\* the services of db (by start handle) with a path whose registration fails
\* for lack of resources
Hit(db, fail) == { db[i].start : i \in { k \in DOMAIN db : PathsOfSvc(db[k]) \cap fail # {} } }

\* the services of db (by start handle) whose object path is not taken
Free(db, exp) == { db[i].start : i \in { k \in DOMAIN db : service_path(db[k].start) \notin exp } }

\* the event of a gatt_ready_cb: the database of the bt_gatt_client, whether
\* every registration succeeded, the services hit by a failure, the services
\* whose path was free when the callback started
ReadyEvent(db, all, hit, free) ==
    [cb |-> "gatt_ready_cb", a |-> db, b |-> all, hit |-> hit, free |-> free]

gatt_ready_cb(db, fail) ==
    LET r == create_services(db, 1, services, exported, fail) IN
    /\ gatt' = 1
    /\ services' = r.services
    /\ exported' = r.exp
    /\ idle' = idle + 1
    /\ last' = ReadyEvent(db, AllRegistered(db, fail, exported),
                          Hit(db, fail), Free(db, exported))
    /\ UNCHANGED <<ops, alive, crashed>>

FailSets(db) == { f \in SUBSET PathsOf(db) : Cardinality(f) <= MaxFail }

GattReadyCb ==
    /\ alive /\ ~crashed
    /\ idle < MaxIdle
    /\ \E db \in Dbs : \E fail \in FailSets(db) : gatt_ready_cb(db, fail)
    /\ UNCHANGED svars

(***************************************************************************)
(* gatt_svc_chngd_cb: the bt_gatt_client reports that the services in      *)
(* (start_handle, end_handle) changed; newdb stands for the services it    *)
(* holds after rediscovering that range.  The callback body is empty.      *)
(***************************************************************************)
gatt_svc_chngd_cb(start_handle, end_handle) ==
    UNCHANGED <<gatt, services, exported, ops, idle, alive, crashed>>

GattSvcChngdCb ==
    /\ alive /\ ~crashed
    /\ gatt # 0
    /\ \E range \in Ranges : \E newdb \in Dbs :
          /\ last' = Event("gatt_svc_chngd_cb", range, newdb)
          /\ gatt_svc_chngd_cb(range[1], range[2])
    /\ UNCHANGED svars

(***************************************************************************)
(* gatt_disconn_cb                                                         *)
(***************************************************************************)
gatt_disconn_cb ==
    /\ exported' = remove_all_services(services, exported)
    /\ services' = <<>>
    /\ gatt' = 0
    /\ ops' = Dangle(ops, services)
    /\ last' = Event("gatt_disconn_cb", 0, 0)
    /\ UNCHANGED <<idle, alive, crashed>>

GattDisconnCb ==
    /\ alive /\ ~crashed
    /\ gatt_disconn_cb
    /\ UNCHANGED svars

(***************************************************************************)
(* btd_gatt_client_destroy: the callbacks are removed, the services are    *)
(* unregistered and the client is freed.  Neither the idle source nor the  *)
(* reads in flight are cancelled.                                          *)
(***************************************************************************)
btd_gatt_client_destroy ==
    /\ exported' = remove_all_services(services, exported)
    /\ services' = <<>>
    /\ gatt' = 0
    /\ alive' = FALSE
    /\ ops' = Dangle(ops, services)
    /\ last' = Event("btd_gatt_client_destroy", 0, 0)
    /\ UNCHANGED <<idle, crashed>>

BtdGattClientDestroy ==
    /\ alive /\ ~crashed
    /\ btd_gatt_client_destroy
    /\ UNCHANGED svars

(***************************************************************************)
(* set_chrcs_ready, the idle callback scheduled by create_services.  It    *)
(* reads client->gatt: on a freed client that read is undefined, and the   *)
(* process either dies or the callback does nothing visible.               *)
(***************************************************************************)
notify_chrcs(service) == [service EXCEPT !.chrcs_ready = TRUE]

set_chrcs_ready ==
    IF gatt = 0
    THEN services
    ELSE [i \in DOMAIN services |-> notify_chrcs(services[i])]

SetChrcsReady ==
    /\ ~crashed
    /\ idle > 0
    /\ idle' = idle - 1
    /\ last' = Event("set_chrcs_ready", 0, 0)
    /\ IF alive
       THEN services' = set_chrcs_ready /\ UNCHANGED crashed
       ELSE (\E die \in BOOLEAN : crashed' = die) /\ UNCHANGED services
    /\ UNCHANGED <<gatt, exported, ops, alive>>
    /\ UNCHANGED svars

(***************************************************************************)
(* characteristic_read_value, the ReadValue method of an exported          *)
(* characteristic.  started says whether the op was allocated and          *)
(* bt_gatt_client_read_long_value accepted the request.  The result is the *)
(* characteristic afterwards, the op put in flight (if any) and the reply  *)
(* returned to the caller (none when the call stays pending).              *)
(***************************************************************************)
characteristic_read_value(c, started) ==
    IF c.in_read
    THEN [chrc |-> c, op |-> EmptyBag, reply |-> <<"InProgress">>]
    ELSE IF started
    THEN [chrc |-> [c EXCEPT !.in_read = TRUE],
          op |-> SetToBag({Ptr(c)}),
          reply |-> <<>>]
    ELSE [chrc |-> c, op |-> EmptyBag, reply |-> <<"Failed">>]

CharacteristicReadValue ==
    /\ ~crashed
    /\ BagCardinality(ops) < MaxOps
    /\ \E c \in AllChrcs(services) : \E started \in BOOLEAN :
          LET r == characteristic_read_value(c, started) IN
          /\ services' = SetChrc(services, r.chrc)
          /\ ops' = ops (+) r.op
          /\ last' = Event("characteristic_read_value", Ptr(c), r.reply)
    /\ UNCHANGED <<gatt, exported, idle, alive, crashed>>
    /\ UNCHANGED svars

(***************************************************************************)
(* chrc_resize_value and chrc_read_long_cb.  alloc says whether realloc    *)
(* succeeds; the cached bytes are chrc.value, value_len is their length.   *)
(***************************************************************************)
chrc_resize_value(chrc, new_size, alloc) ==
    IF Len(chrc.value) = new_size THEN TRUE
    ELSE IF new_size = 0 THEN TRUE
    ELSE alloc

chrc_read_long_cb_keep(chrc, success, value, alloc) ==
    LET c == [chrc EXCEPT !.in_read = FALSE] IN
    IF ~success THEN c
    ELSE IF ~chrc_resize_value(c, Len(value), alloc) THEN c
    ELSE [c EXCEPT !.value = value, !.value_known = TRUE]

\* the characteristic after the callback ran on it
chrc_read_long_cb(chrc, success, value, alloc) ==
    LET c == [chrc EXCEPT !.in_read = FALSE] IN
    IF ~success THEN c
    ELSE IF c.value_known /\ Len(c.value) = Len(value) /\ c.value = value THEN c
    ELSE IF ~chrc_resize_value(c, Len(value), alloc)
         THEN [c EXCEPT !.value = <<>>, !.value_known = FALSE]
         ELSE [c EXCEPT !.value = value, !.value_known = TRUE]

\* the reply the callback sends: an error, the value, or nothing when the
\* reply message cannot be allocated
read_reply(success, reply_ok) ==
    IF ~success THEN <<"Error">>
    ELSE IF reply_ok THEN <<"Value">> ELSE <<>>

(***************************************************************************)
(* The completion of a long read: bt_gatt_client invokes the callback once *)
(* with a value or with a failure and then destroys the op.  op->chrc is   *)
(* dereferenced without a check: when that characteristic was freed the    *)
(* access is undefined: the process dies, or carries on with the reply     *)
(* after writing to unused memory, or after writing to the characteristic  *)
(* that was allocated in the freed block since.                            *)
(***************************************************************************)
\* the outcomes of a read: a failure, or a value together with whether the
\* reply message can be allocated
ReadResults ==
    { <<FALSE, <<>>, TRUE>> }
    \cup { <<TRUE, v, r>> : v \in Values, r \in BOOLEAN }

\* whether realloc succeeds, for the completions on chrc that call it
Allocs(chrc, success, value) ==
    IF /\ success
       /\ ~(chrc.value_known /\ chrc.value = value)
       /\ Len(chrc.value) # Len(value) /\ Len(value) # 0
    THEN BOOLEAN ELSE {TRUE}

\* the event of a completion that wrote to a characteristic: chrc is its
\* op->chrc, on the characteristic that holds the memory written, success and
\* value what bt_gatt_client delivered, reply what the callback replied
Completion(chrc, on, reply, success, value) ==
    [cb |-> "chrc_read_long_cb", a |-> chrc, b |-> reply, on |-> on,
     success |-> success, value |-> value]

\* the characteristics that may hold the block of a freed one: malloc hands
\* a freed block to a later allocation of the same size
Reused == { Ptr(c) : c \in AllChrcs(services) }

ReadComplete ==
    /\ ~crashed
    /\ \E chrc \in BagToSet(ops) :
       LET done == ops (-) SetToBag({chrc}) IN
       IF chrc # Freed
       THEN \E in \in ReadResults : \E alloc \in Allocs(ChrcAt(chrc), in[1], in[2]) :
            /\ services' = SetChrc(services,
                             chrc_read_long_cb(ChrcAt(chrc), in[1], in[2], alloc))
            /\ last' = Completion(chrc, chrc, read_reply(in[1], in[3]), in[1], in[2])
            /\ ops' = done
            /\ UNCHANGED crashed
       ELSE \/ /\ crashed' = TRUE
               /\ last' = Event("chrc_read_long_cb", chrc, <<>>)
               /\ UNCHANGED <<ops, services>>
            \/ \E reply \in { read_reply(in[1], in[3]) : in \in ReadResults } :
               /\ last' = Event("chrc_read_long_cb", chrc, reply)
               /\ ops' = done
               /\ UNCHANGED <<crashed, services>>
            \/ \E on \in Reused : \E in \in ReadResults :
               \E alloc \in Allocs(ChrcAt(on), in[1], in[2]) :
               /\ services' = SetChrc(services,
                                chrc_read_long_cb(ChrcAt(on), in[1], in[2], alloc))
               /\ last' = Completion(chrc, on, read_reply(in[1], in[3]), in[1], in[2])
               /\ ops' = done
               /\ UNCHANGED crashed
    /\ UNCHANGED <<gatt, exported, idle, alive>>
    /\ UNCHANGED svars

\* the Characteristics property of an exported service
service_property_get_characteristics(service) ==
    IF service.chrcs_ready
    THEN [j \in DOMAIN service.chrcs |-> service.chrcs[j].path]
    ELSE <<>>

ClientNext ==
    \/ GattReadyCb
    \/ GattSvcChngdCb
    \/ GattDisconnCb
    \/ BtdGattClientDestroy
    \/ SetChrcsReady
    \/ CharacteristicReadValue
    \/ ReadComplete


\* a procedure of the peer: a Read Long (value is what it has read so far) or
\* the Prepare Write queue of a long write of value being applied
Proc(kind, value, chunk, offset, state) ==
    [kind |-> kind, value |-> value, chunk |-> chunk, offset |-> offset, state |-> state]

NoProc == Proc("none", <<>>, 0, 0, "done")

\* the server variables while the client is the program under study
ServerIdle ==
    /\ device_name = <<>>
    /\ name_len = 0
    /\ name_freed = FALSE
    /\ svc_chngd_enabled = FALSE
    /\ mtu = 23
    /\ proc = NoProc
    /\ slast = [cb |-> "server_create"]

Init == ClientInit /\ ServerIdle

Spec == Init /\ [][ClientNext]_vars

\* the handlers that reach the mirror or a read in flight: gatt_svc_chngd_cb,
\* whose body is empty, is left out
CacheNext ==
    \/ GattReadyCb
    \/ GattDisconnCb
    \/ BtdGattClientDestroy
    \/ SetChrcsReady
    \/ CharacteristicReadValue
    \/ ReadComplete

SpecCache == Init /\ [][CacheNext]_vars

(***************************************************************************)
(*                          btgatt-server.c                                *)
(***************************************************************************)
\* longest Device Name and longest written value of the write model
MaxName == 2
\* largest offset a request carries in the write model
MaxOffset == 3
\* longest Device Name of the Read Long model
MaxNameLen == 70
\* largest ATT MTU of the Read Long model (the smallest is 23)
MaxMtu == 24

\* largest chunk of a long write (the value part of one Prepare Write)
MaxChunk == 2
\* most words after "notify" on a command line
MaxArgs == 3
\* longest value written to the Service Changed CCC
MaxCccLen == 3

\* the byte values of names and written values
Bytes == {1, 2}

RECURSIVE SeqsUpTo(_, _)
SeqsUpTo(S, n) ==
    IF n = 0 THEN { <<>> }
    ELSE LET shorter == SeqsUpTo(S, n - 1) IN
         shorter \cup { Append(s, b) : s \in { x \in shorter : Len(x) = n - 1 }, b \in S }

MIN(a, b) == IF a < b THEN a ELSE b

\* a read of a block that was freed: the old bytes, or what the allocator
\* has put there since (shown as zero bytes)
StaleReads(bytes) == { bytes, [i \in DOMAIN bytes |-> 0] }

(***************************************************************************)
(* gap_device_name_read_cb: the result handed to                           *)
(* gatt_db_attribute_read_result.                                          *)
(***************************************************************************)
\* a read callback that ignores the offset when it picks the bytes
gap_device_name_read_cb_from_start(offset) ==
    IF offset > name_len
    THEN [error |-> "INVALID_OFFSET", value |-> <<>>]
    ELSE [error |-> "", value |-> SubSeq(device_name, 1, name_len - offset)]

gap_device_name_read_cb(offset) ==
    IF offset > name_len
    THEN [error |-> "INVALID_OFFSET", value |-> <<>>]
    ELSE [error |-> "", value |-> SubSeq(device_name, offset + 1, name_len)]

(***************************************************************************)
(* gap_device_name_write_cb.  ra is what realloc does: "null" (it returns  *)
(* NULL: a failure, or for a size of 0 the block freed), "same" (the block *)
(* resized in place), "moved" (a new block, the old one freed) or, given a *)
(* pointer to a block that was freed already, "abort" (the allocator ends  *)
(* the process).  After realloc the code copies                            *)
(* MIN(offset + len, name_len) bytes from the OLD pointer                  *)
(* server->device_name into the new block: when the block moved that       *)
(* source is freed memory, and stale is what the copy reads there.  The    *)
(* result is the error code, the new device_name and name_len, and whether *)
(* server->device_name is left pointing to a freed block.                  *)
(***************************************************************************)
gap_device_name_write_cb(offset, value, ra, stale) ==
    LET len == Len(value)
        keep == [error |-> "", name |-> device_name, name_len |-> name_len,
                 freed |-> name_freed]
    IN
    IF offset > name_len
    THEN [keep EXCEPT !.error = "INVALID_OFFSET"]
    ELSE IF offset + len # name_len
    THEN IF ra = "abort"
         THEN [keep EXCEPT !.error = "abort"]
         ELSE IF ra = "null"
         THEN \* realloc(ptr, 0) returning NULL has freed the block
              [keep EXCEPT !.error = "INSUFFICIENT_RESOURCES",
                           !.freed = name_freed \/ offset + len = 0]
         ELSE LET copied == MIN(offset + len, name_len)
                  old == IF ra = "moved" \/ name_freed
                         THEN SubSeq(stale, 1, copied)
                         ELSE SubSeq(device_name, 1, copied)
              IN [error |-> "",
                  name |-> SubSeq(old, 1, offset) \o value,
                  name_len |-> offset + len,
                  freed |-> FALSE]
    ELSE [keep EXCEPT !.name = SubSeq(device_name, 1, offset) \o value]

\* the names and written values of the peer
NameValues == SeqsUpTo(Bytes, MaxName)

\* what realloc can do with server->device_name in the current state, for a
\* write that calls it (any other write leaves the allocator alone)
Reallocs(offset, len) ==
    IF offset <= name_len /\ offset + len # name_len
    THEN {"null", "same", "moved"} \cup (IF name_freed THEN {"abort"} ELSE {})
    ELSE {"same"}

\* what the copy after realloc reads through the old pointer
OldReads(ra) ==
    IF ra = "moved" \/ name_freed THEN StaleReads(device_name) ELSE {device_name}

\* the bytes gatt_db_attribute_read_result copies from the pointer it is given
ReadThrough(value) == IF name_freed THEN StaleReads(value) ELSE {value}

(***************************************************************************)
(* The completion of a request: the calls of gatt_db_attribute_read_result *)
(* and gatt_db_attribute_write_result a callback makes before it returns,  *)
(* in order.  r is what the body of the callback computed on its way to    *)
(* the label done.                                                         *)
(***************************************************************************)
ReadResult(err, value) ==
    [call |-> "gatt_db_attribute_read_result", err |-> err, value |-> value]

WriteResult(err) == [call |-> "gatt_db_attribute_write_result", err |-> err]

gap_appearance_cb == << ReadResult("", <<128, 0>>) >>

gap_device_name_read_cb_done(r) == << ReadResult(r.error, r.value) >>

\* a write callback that returns from its error branches without an answer
gap_device_name_write_cb_return(r) ==
    IF r.error # "" THEN <<>> ELSE << WriteResult(r.error) >>

\* the allocator ending the process inside realloc is no return of the callback
gap_device_name_write_cb_done(r) ==
    IF r.error = "abort" THEN <<>> ELSE << WriteResult(r.error) >>

gap_device_name_ext_prop_read_cb == << ReadResult("", <<1, 0>>) >>

gatt_service_changed_cb == << ReadResult("", <<>>) >>

gatt_svc_chngd_ccc_read_cb_done(r) == << ReadResult(r.error, r.value) >>

gatt_svc_chngd_ccc_write_cb_done(r) == << WriteResult(r.ecode) >>

\* the client variables while the server is the program under study
ClientIdle == ClientInit

(***************************************************************************)
(* The Device Name handlers as the peer's single reads and writes invoke   *)
(* them, and the long write: Execute Write applies the queued Prepare      *)
(* Write entries in FIFO order, one gap_device_name_write_cb call each.    *)
(***************************************************************************)
NameInit ==
    /\ device_name \in NameValues
    /\ name_len = Len(device_name)
    /\ name_freed = FALSE
    /\ svc_chngd_enabled = FALSE
    /\ mtu = 23
    /\ proc = NoProc
    /\ slast = [cb |-> "server_create"]

\* a request of the peer outside a long write ends the procedure before it
GapDeviceNameReadCb ==
    /\ proc.state # "applying" /\ slast.cb # "abort"
    /\ \E offset \in 0..MaxOffset :
       \E bytes \in ReadThrough(gap_device_name_read_cb(offset).value) :
          slast' = [cb |-> "gap_device_name_read_cb", offset |-> offset,
                    res |-> [gap_device_name_read_cb(offset) EXCEPT !.value = bytes],
                    calls |-> gap_device_name_read_cb_done(gap_device_name_read_cb(offset))]
    /\ proc' = NoProc
    /\ UNCHANGED <<device_name, name_len, name_freed, svc_chngd_enabled, mtu>>
    /\ UNCHANGED cvars

GapDeviceNameWriteCb ==
    /\ proc.state # "applying" /\ slast.cb # "abort"
    /\ \E offset \in 0..MaxOffset : \E value \in NameValues :
       /\ offset + Len(value) <= MaxName
       /\ \E ra \in Reallocs(offset, Len(value)) : \E stale \in OldReads(ra) :
          LET r == gap_device_name_write_cb(offset, value, ra, stale) IN
          /\ device_name' = r.name
          /\ name_len' = r.name_len
          /\ name_freed' = r.freed
          /\ slast' = [cb |-> IF r.error = "abort" THEN "abort"
                                ELSE "gap_device_name_write_cb",
                       offset |-> offset, value |-> value,
                       res |-> r.error, calls |-> gap_device_name_write_cb_done(r)]
    /\ proc' = NoProc
    /\ UNCHANGED <<svc_chngd_enabled, mtu>>
    /\ UNCHANGED cvars

\* the peer has queued the chunks of value and sends Execute Write
LongWriteStart ==
    /\ proc.state # "applying" /\ slast.cb # "abort"
    /\ \E value \in NameValues \ { <<>> } : \E chunk \in 1..MaxChunk :
          proc' = Proc("write_long", value, chunk, 0, "applying")
    /\ slast' = [cb |-> "execute_write"]
    /\ UNCHANGED <<device_name, name_len, name_freed, svc_chngd_enabled, mtu>>
    /\ UNCHANGED cvars

\* the next queued entry is written; an error ends the procedure
LongWriteStep ==
    /\ proc.kind = "write_long" /\ proc.state = "applying"
    /\ LET value == SubSeq(proc.value, proc.offset + 1,
                         MIN(proc.offset + proc.chunk, Len(proc.value)))
           next == proc.offset + Len(value)
       IN
       \E ra \in Reallocs(proc.offset, Len(value)) : \E stale \in OldReads(ra) :
          LET r == gap_device_name_write_cb(proc.offset, value, ra, stale) IN
          /\ device_name' = r.name
          /\ name_len' = r.name_len
          /\ name_freed' = r.freed
          /\ proc' = [proc EXCEPT !.offset = next,
                        !.state = IF r.error # "" THEN "failed"
                                  ELSE IF next = Len(proc.value) THEN "done"
                                  ELSE "applying"]
          /\ slast' = [cb |-> IF r.error = "abort" THEN "abort"
                                ELSE "gap_device_name_write_cb",
                       offset |-> proc.offset, value |-> value,
                       res |-> r.error, calls |-> gap_device_name_write_cb_done(r)]
    /\ UNCHANGED <<svc_chngd_enabled, mtu>>
    /\ UNCHANGED cvars

NameNext ==
    \/ GapDeviceNameReadCb
    \/ GapDeviceNameWriteCb
    \/ LongWriteStart
    \/ LongWriteStep

InitName == NameInit /\ ClientIdle

SpecName == InitName /\ [][NameNext]_vars

(***************************************************************************)
(* The Read Long of the Device Name: a Read at offset 0, then Read Blobs.  *)
(* The server answers each with the bytes the callback hands back, cut to  *)
(* mtu - 1; the peer stops at the first answer shorter than mtu - 1 or at  *)
(* INVALID_OFFSET.                                                         *)
(***************************************************************************)
Pattern(n) == [i \in 1..n |-> i % 256]

att_read_rsp(value, m) == SubSeq(value, 1, MIN(Len(value), m - 1))

ReadLongInit ==
    /\ device_name \in { Pattern(n) : n \in 0..MaxNameLen }
    /\ name_len = Len(device_name)
    /\ name_freed = FALSE
    /\ svc_chngd_enabled = FALSE
    /\ mtu \in 23..MaxMtu
    /\ proc = Proc("read_long", <<>>, 0, 0, "reading")
    /\ slast = [cb |-> "server_create"]

ReadLongStep ==
    /\ proc.kind = "read_long" /\ proc.state = "reading"
    /\ \E bytes \in ReadThrough(gap_device_name_read_cb(proc.offset).value) :
       LET r == [gap_device_name_read_cb(proc.offset) EXCEPT !.value = bytes]
           pdu == att_read_rsp(r.value, mtu)
       IN
       /\ proc' = IF r.error # ""
                  THEN [proc EXCEPT !.state = "done"]
                  ELSE [proc EXCEPT !.value = @ \o pdu,
                                    !.offset = @ + (mtu - 1),
                                    !.chunk = @ + 1,
                                    !.state = IF Len(pdu) < mtu - 1 THEN "done" ELSE "reading"]
       /\ slast' = [cb |-> "gap_device_name_read_cb", offset |-> proc.offset, res |-> r]
    /\ UNCHANGED <<device_name, name_len, name_freed, svc_chngd_enabled, mtu>>
    /\ UNCHANGED cvars

InitReadLong == ReadLongInit /\ ClientIdle

SpecReadLong == InitReadLong /\ [][ReadLongStep]_vars /\ WF_vars(ReadLongStep)

(***************************************************************************)
(* The attribute database of the server.  gatt_db hands out handles in     *)
(* order: a service takes the next num_handles handles, its declaration    *)
(* the first of them; a characteristic takes two (declaration and value),  *)
(* a descriptor one.                                                       *)
(***************************************************************************)
Attr(handle, uuid, kind, service) ==
    [handle |-> handle, uuid |-> uuid, kind |-> kind, service |-> service]

gatt_db_new ==
    [next_handle |-> 1, attrs |-> <<>>, services |-> <<>>, start |-> 0, end |-> 0,
     cursor |-> 0]

gatt_db_add_service(db, uuid, num_handles) ==
    [next_handle |-> db.next_handle + num_handles,
     attrs |-> Append(db.attrs, Attr(db.next_handle, uuid, "service", db.next_handle)),
     services |-> Append(db.services, [start |-> db.next_handle,
                                       end |-> db.next_handle + num_handles - 1]),
     start |-> db.next_handle,
     end |-> db.next_handle + num_handles - 1,
     cursor |-> db.next_handle + 1]

gatt_db_service_add_characteristic(db, uuid) ==
    [db EXCEPT !.attrs = @ \o << Attr(db.cursor, uuid, "characteristic", db.start),
                                 Attr(db.cursor + 1, uuid, "value", db.start) >>,
               !.cursor = @ + 2]

gatt_db_service_add_descriptor(db, uuid) ==
    [db EXCEPT !.attrs = Append(@, Attr(db.cursor, uuid, "descriptor", db.start)),
               !.cursor = @ + 1]

populate_db_five ==
    LET gap == gatt_db_add_service(gatt_db_new, "GAP", 5)
        name == gatt_db_service_add_characteristic(gap, "DEVICE_NAME")
        ext == gatt_db_service_add_descriptor(name, "EXT_PROPER")
        appearance == gatt_db_service_add_characteristic(ext, "APPEARANCE")
        gattsvc == gatt_db_add_service(appearance, "GATT", 4)
        changed == gatt_db_service_add_characteristic(gattsvc, "SERVICE_CHANGED")
        ccc == gatt_db_service_add_descriptor(changed, "CLIENT_CHARAC_CFG")
    IN ccc

populate_db ==
    LET gap == gatt_db_add_service(gatt_db_new, "GAP", 6)
        name == gatt_db_service_add_characteristic(gap, "DEVICE_NAME")
        ext == gatt_db_service_add_descriptor(name, "EXT_PROPER")
        appearance == gatt_db_service_add_characteristic(ext, "APPEARANCE")
        gattsvc == gatt_db_add_service(appearance, "GATT", 4)
        changed == gatt_db_service_add_characteristic(gattsvc, "SERVICE_CHANGED")
        ccc == gatt_db_service_add_descriptor(changed, "CLIENT_CHARAC_CFG")
    IN ccc

AttrHandle(uuid, kind) ==
    LET db == populate_db
        i == CHOOSE j \in DOMAIN db.attrs : db.attrs[j].uuid = uuid /\ db.attrs[j].kind = kind
    IN db.attrs[i].handle

\* the handle an indication of Service Changed carries
SvcChngdValueHandle == AttrHandle("SERVICE_CHANGED", "value")

(***************************************************************************)
(* The Service Changed CCC descriptor.  A NULL value is the empty value.   *)
(***************************************************************************)
gatt_svc_chngd_ccc_read_cb ==
    [error |-> "", value |-> << IF svc_chngd_enabled THEN 2 ELSE 0, 0 >>]

gatt_svc_chngd_ccc_write_cb_offset_first(offset, value) ==
    IF offset # 0
    THEN [ecode |-> "INVALID_OFFSET", enabled |-> svc_chngd_enabled]
    ELSE IF Len(value) # 2
    THEN [ecode |-> "INVALID_ATTRIBUTE_VALUE_LEN", enabled |-> svc_chngd_enabled]
    ELSE IF value[1] = 0
    THEN [ecode |-> "", enabled |-> FALSE]
    ELSE IF value[1] = 2
    THEN [ecode |-> "", enabled |-> TRUE]
    ELSE [ecode |-> "0x80", enabled |-> svc_chngd_enabled]

gatt_svc_chngd_ccc_write_cb(offset, value) ==
    IF Len(value) # 2
    THEN [ecode |-> "INVALID_ATTRIBUTE_VALUE_LEN", enabled |-> svc_chngd_enabled]
    ELSE IF offset # 0
    THEN [ecode |-> "INVALID_OFFSET", enabled |-> svc_chngd_enabled]
    ELSE IF value[1] = 0
    THEN [ecode |-> "", enabled |-> FALSE]
    ELSE IF value[1] = 2
    THEN [ecode |-> "", enabled |-> TRUE]
    ELSE [ecode |-> "0x80", enabled |-> svc_chngd_enabled]

(***************************************************************************)
(* The notify command.  A word of the command line is what getopt, strlen  *)
(* and strtol(.., 16) make of it: opt is the option it is ("" for an       *)
(* operand), hex says that strtol consumed all of it, val is the number    *)
(* strtol returns, erange that strtol set errno to ERANGE.                 *)
(***************************************************************************)
Word(text, opt, hex, val, erange) ==
    [text |-> text, len |-> Len(text), opt |-> opt, hex |-> hex, val |-> val,
     erange |-> erange]

Words ==
    { Word("-i", "i", FALSE, 0, FALSE),
      Word("-x", "?", FALSE, 0, FALSE),
      Word("0", "", TRUE, 0, FALSE),
      Word("01", "", TRUE, 1, FALSE),
      Word("0009", "", TRUE, 9, FALSE),
      Word("10000", "", TRUE, 65536, FALSE),
      Word("10009", "", TRUE, 65545, FALSE),
      Word("zz", "", FALSE, 0, FALSE) }

parse_args(str, expected_argc) == 1 + Len(str) <= expected_argc

\* the options in front of the first operand ("+i"), optind counted in str
RECURSIVE getopt_long(_, _, _)
getopt_long(str, optind, indicate) ==
    IF optind > Len(str) \/ str[optind].opt = ""
    THEN [opt |-> "", optind |-> optind, indicate |-> indicate]
    ELSE IF str[optind].opt = "i"
    THEN getopt_long(str, optind + 1, TRUE)
    ELSE [opt |-> "?", optind |-> optind, indicate |-> indicate]

\* one call of a send function; conf_cb is the confirmation callback passed
SendCall(fn, handle, value, conf_cb) ==
    [fn |-> fn, handle |-> handle, value |-> value, conf_cb |-> conf_cb]

Sent_notification(out, indicate, handle, value) ==
    [out |-> out, indicate |-> indicate, handle |-> handle, value |-> value,
     sends |-> << SendCall("bt_gatt_server_send_notification", handle, value, FALSE) >>]

\* the send that cmd_notify makes; sends are the calls of the send functions
Sent(out, indicate, handle, value) ==
    [out |-> out, indicate |-> indicate, handle |-> handle, value |-> value,
     sends |-> << IF indicate
                  THEN SendCall("bt_gatt_server_send_indication", handle, value, TRUE)
                  ELSE SendCall("bt_gatt_server_send_notification", handle, value, FALSE) >>]

NotSent(out) ==
    [out |-> out, indicate |-> FALSE, handle |-> 0, value |-> <<>>, sends |-> <<>>]

\* the value bytes argv[i..]; errno stays ERANGE once a strtol has set it
RECURSIVE value_bytes(_, _, _)
value_bytes(argv, i, erange) ==
    IF i > Len(argv) THEN [ok |-> TRUE, value |-> <<>>]
    ELSE IF argv[i].len # 2 THEN [ok |-> FALSE, value |-> <<>>]
    ELSE IF ~argv[i].hex \/ erange \/ argv[i].erange THEN [ok |-> FALSE, value |-> <<>>]
    ELSE LET rest == value_bytes(argv, i + 1, erange) IN
         [ok |-> rest.ok, value |-> <<argv[i].val % 256>> \o rest.value]

cmd_notify(str, malloc_ok, send_ok) ==
    IF ~parse_args(str, 514) THEN NotSent("Too many arguments")
    ELSE
    LET o == getopt_long(str, 1, FALSE)
        argv == SubSeq(str, o.optind, Len(str))
        argc == Len(argv)
    IN
    IF o.opt = "?" \/ argc < 1 THEN NotSent("usage")
    ELSE
    LET handle == argv[1].val % 65536
        length == argc - 1
        v == value_bytes(argv, 2, argv[1].erange)
    IN
    IF ~argv[1].hex \/ handle = 0 THEN NotSent("Invalid handle")
    ELSE IF length > 0 /\ ~malloc_ok THEN NotSent("Failed to construct value")
    ELSE IF ~v.ok THEN NotSent("Invalid value byte")
    ELSE Sent(IF send_ok THEN "sent" ELSE "Failed to initiate", o.indicate, handle, v.value)

\* the number strtol makes of the handle operand of the command, -1 without one
typed_handle(str) ==
    LET o == getopt_long(str, 1, FALSE) IN
    IF parse_args(str, 514) /\ o.opt = "" /\ o.optind <= Len(str) /\ str[o.optind].hex
    THEN str[o.optind].val ELSE -1

\* the command gets through every check that cmd_notify makes of its arguments
passes_validation(str) ==
    LET o == getopt_long(str, 1, FALSE) IN
    /\ parse_args(str, 514)
    /\ o.opt = "" /\ o.optind <= Len(str)
    /\ str[o.optind].hex /\ str[o.optind].val % 65536 # 0
    /\ \A i \in (o.optind + 1)..Len(str) :
          /\ str[i].len = 2 /\ str[i].hex
          /\ ~str[i].erange /\ ~str[o.optind].erange

(***************************************************************************)
(* The server with a peer connected: the peer reads and writes the CCC,    *)
(* the user types notify commands at the prompt.                           *)
(***************************************************************************)
\* what the peer writes to the CCC, what the user types after "notify"
\* (the callback reads the length and the first byte: longer values differ in
\* their first two bytes only)
CccValues ==
    { v \in SeqsUpTo({0, 1, 2}, MaxCccLen) : \A i \in DOMAIN v : i > 2 => v[i] = 0 }

Commands == SeqsUpTo(Words, MaxArgs)

ServerInit ==
    /\ device_name = <<>>
    /\ name_len = 0
    /\ name_freed = FALSE
    /\ svc_chngd_enabled = FALSE
    /\ mtu = 23
    /\ proc = NoProc
    /\ slast = [cb |-> "server_create"]

GattSvcChngdCccReadCb ==
    /\ slast.cb # "abort"
    /\ slast' = [cb |-> "gatt_svc_chngd_ccc_read_cb", res |-> gatt_svc_chngd_ccc_read_cb,
                 calls |-> gatt_svc_chngd_ccc_read_cb_done(gatt_svc_chngd_ccc_read_cb)]
    /\ UNCHANGED <<device_name, name_len, name_freed, svc_chngd_enabled, mtu, proc>>
    /\ UNCHANGED cvars

GattSvcChngdCccWriteCb ==
    /\ slast.cb # "abort"
    /\ \E offset \in {0, 1} : \E value \in CccValues :
          LET r == gatt_svc_chngd_ccc_write_cb(offset, value) IN
          /\ svc_chngd_enabled' = r.enabled
          /\ slast' = [cb |-> "gatt_svc_chngd_ccc_write_cb", offset |-> offset,
                       value |-> value, res |-> r.ecode,
                       calls |-> gatt_svc_chngd_ccc_write_cb_done(r)]
    /\ UNCHANGED <<device_name, name_len, name_freed, mtu, proc>>
    /\ UNCHANGED cvars

CmdNotify ==
    /\ slast.cb # "abort"
    /\ \E str \in Commands : \E malloc_ok \in BOOLEAN : \E send_ok \in BOOLEAN :
          slast' = [cb |-> "cmd_notify", typed |-> typed_handle(str),
                       valid |-> passes_validation(str),
                       res |-> cmd_notify(str, malloc_ok, send_ok)]
    /\ UNCHANGED <<device_name, name_len, name_freed, svc_chngd_enabled, mtu, proc>>
    /\ UNCHANGED cvars

ServerNext ==
    \/ GattSvcChngdCccReadCb
    \/ GattSvcChngdCccWriteCb
    \/ CmdNotify

InitServer == ServerInit /\ ClientIdle

SpecServer == InitServer /\ [][ServerNext]_vars

(***************************************************************************)
(*                              Properties                                 *)
(***************************************************************************)
\* the remote service, characteristics and descriptors a mirror entry stands for
ShapeOfChrc(c) == Chr(c.handle, c.value_handle, [k \in DOMAIN c.descs |-> c.descs[k].handle])
ShapeOfSvc(service) ==
    Svc(service.start_handle, service.end_handle,
        [j \in DOMAIN service.chrcs |-> ShapeOfChrc(service.chrcs[j])])
Shape(svcs) == [i \in DOMAIN svcs |-> ShapeOfSvc(svcs[i])]

\* the services of a database that lie in a (start, end) range
InRange(db, range) ==
    LET Within(s) == range[1] <= s.start /\ s.end <= range[2] IN SelectSeq(db, Within)

Increasing(seq) == \A i, j \in DOMAIN seq : i < j => seq[i] < seq[j]

\* C1: after gatt_disconn_cb has run, whatever ready, read and disconnect
\* events came before, client->services is empty, no object of the client is
\* exported and client->gatt is NULL.
C1_DisconnectTearsDown ==
    last.cb = "gatt_disconn_cb" => services = <<>> /\ exported = {} /\ gatt = 0

\* a disconnect that freed a characteristic with a read in flight, while an
\* idle callback of a ready event is still scheduled
C1_Witness ==
    /\ last.cb = "gatt_disconn_cb"
    /\ Freed \in BagToSet(ops)
    /\ idle > 0
    /\ services = <<>> /\ exported = {}

\* C2: after each gatt_ready_cb in which no registration failed, the exported
\* objects are exactly the services, characteristics and descriptors of the
\* database of that ready event, with nothing left from an earlier one.
C2_ReadyExportsExactly ==
    (last.cb = "gatt_ready_cb" /\ last.b)
        => (Shape(services) = last.a /\ exported = PathsOf(last.a))

\* C3: after gatt_svc_chngd_cb was given a range, the mirror inside that range
\* is the one of the rediscovered services of that range.
C3_ServiceChangedRebuilds ==
    last.cb = "gatt_svc_chngd_cb"
        => InRange(Shape(services), last.a) = InRange(last.b, last.a)

\* C4: the completion of an accepted ReadValue sends exactly one reply (the
\* value or an error), also when the bearer went away in between, and no
\* accepted read is left without its completion.
C4_ReadRepliedOnce ==
    /\ last.cb = "chrc_read_long_cb" => Len(last.b) = 1
    /\ crashed => ops = EmptyBag

\* C5: chrc_read_long_cb never runs for a read whose characteristic was removed
\* by gatt_disconn_cb or btd_gatt_client_destroy.
C5_NoCallbackAfterRemoval ==
    last.cb = "chrc_read_long_cb" => last.a # Freed

\* C6: in every reachable state client->services is by increasing start
\* handle, each chrcs list by increasing characteristic handle and each descs
\* list by increasing descriptor handle.
C6_HandleOrder ==
    /\ Increasing([i \in DOMAIN services |-> services[i].start_handle])
    /\ \A i \in DOMAIN services :
          /\ Increasing([j \in DOMAIN services[i].chrcs |-> services[i].chrcs[j].handle])
          /\ \A j \in DOMAIN services[i].chrcs :
                Increasing([k \in DOMAIN services[i].chrcs[j].descs |->
                               services[i].chrcs[j].descs[k].handle])

\* the remote service exported at a start handle
RemoteSvc(start_handle) == CHOOSE s \in {SvcA, SvcB} : s.start = start_handle

ListsAllWhenAny ==
    \A i \in DOMAIN services :
        Len(service_property_get_characteristics(services[i])) > 0
        => /\ service_property_get_characteristics(services[i])
                = [j \in DOMAIN RemoteSvc(services[i].start_handle).chrcs |->
                      chrc_path(services[i].path,
                                RemoteSvc(services[i].start_handle).chrcs[j].handle)]
           /\ \A k \in DOMAIN services :
                 /\ ShapeOfSvc(services[k]) = RemoteSvc(services[k].start_handle)
                 /\ PathsOfSvc(RemoteSvc(services[k].start_handle)) \subseteq exported

ReadyPaths(svcs) == { svcs[i].path : i \in { k \in DOMAIN svcs : svcs[k].chrcs_ready } }

\* C7: when the Characteristics property of a service lists a characteristic
\* it lists all of them, and every characteristic and descriptor of every
\* service of the mirror is exported; chrcs_ready becomes true only in a step
\* of the idle callback set_chrcs_ready, and that callback changes no service
\* when client->gatt is NULL.
C7_CharacteristicsAllOrNone ==
    /\ []ListsAllWhenAny
    /\ [][ /\ (ReadyPaths(services') \ ReadyPaths(services) # {})
                => last'.cb = "set_chrcs_ready"
           /\ (last'.cb = "set_chrcs_ready" /\ gatt = 0) => services' = services ]_vars

\* the idle callback has run on a mirror of two services, one with characteristics
C7_Witness ==
    /\ last.cb = "set_chrcs_ready"
    /\ Len(services) = 2
    /\ \E i \in DOMAIN services :
          Len(service_property_get_characteristics(services[i])) = 2

\* C8: the Read Long of the Device Name ends, and the concatenation of the
\* responses is the whole stored name, for every name length and MTU of the
\* model, lengths that are a multiple of mtu - 1 included.
C8_ReadLongWholeName ==
    /\ <>(proc.state = "done")
    /\ [](proc.state = "done" => proc.value = device_name)

\* a Read Long of a name whose length is a multiple of mtu - 1 has ended
C8_Witness ==
    /\ proc.kind = "read_long" /\ proc.state = "done"
    /\ name_len > 0 /\ name_len % (mtu - 1) = 0
    /\ proc.value = device_name
    /\ proc.chunk = (name_len \div (mtu - 1)) + 1

\* C9: when every chunk of a long write of V was written with success, in
\* FIFO order, the stored name is V and name_len is the length of V.
C9_LongWriteLeavesV ==
    (proc.kind = "write_long" /\ proc.state = "done")
        => (device_name = proc.value /\ name_len = Len(proc.value))

\* C10: an indication on the Service Changed value handle is sent only while
\* svc_chngd_enabled is true.
C10_IndicationOnlyWhenEnabled ==
    (/\ slast.cb = "cmd_notify"
     /\ slast.res.out = "sent"
     /\ slast.res.indicate
     /\ slast.res.handle = SvcChngdValueHandle)
        => svc_chngd_enabled

\* C11: reading the Service Changed CCC returns 00 00 while no write has
\* succeeded, and after a write that completed with success it returns the
\* two bytes that were written.
C11_CccReadsBackWritten ==
    /\ slast.cb = "server_create" => gatt_svc_chngd_ccc_read_cb.value = <<0, 0>>
    /\ (slast.cb = "gatt_svc_chngd_ccc_write_cb" /\ slast.res = "")
          => gatt_svc_chngd_ccc_read_cb.value = slast.value

(***************************************************************************)
(* The attribute callbacks populate_db registers, as the requests of the   *)
(* peer invoke them: one request, one callback.                            *)
(***************************************************************************)
GapAppearanceCb ==
    /\ slast.cb # "abort"
    /\ slast' = [cb |-> "gap_appearance_cb", calls |-> gap_appearance_cb]
    /\ UNCHANGED <<device_name, name_len, name_freed, svc_chngd_enabled, mtu, proc>>
    /\ UNCHANGED cvars

GapDeviceNameExtPropReadCb ==
    /\ slast.cb # "abort"
    /\ slast' = [cb |-> "gap_device_name_ext_prop_read_cb",
                 calls |-> gap_device_name_ext_prop_read_cb]
    /\ UNCHANGED <<device_name, name_len, name_freed, svc_chngd_enabled, mtu, proc>>
    /\ UNCHANGED cvars

GattServiceChangedCb ==
    /\ slast.cb # "abort"
    /\ slast' = [cb |-> "gatt_service_changed_cb", calls |-> gatt_service_changed_cb]
    /\ UNCHANGED <<device_name, name_len, name_freed, svc_chngd_enabled, mtu, proc>>
    /\ UNCHANGED cvars

AttrNext ==
    \/ GapAppearanceCb
    \/ GapDeviceNameReadCb
    \/ GapDeviceNameWriteCb
    \/ GapDeviceNameExtPropReadCb
    \/ GattServiceChangedCb
    \/ GattSvcChngdCccReadCb
    \/ GattSvcChngdCccWriteCb

SpecAttr == InitName /\ [][AttrNext]_vars

ReadCallbacks ==
    { "gap_appearance_cb", "gap_device_name_read_cb", "gap_device_name_ext_prop_read_cb",
      "gatt_service_changed_cb", "gatt_svc_chngd_ccc_read_cb" }

WriteCallbacks == { "gap_device_name_write_cb", "gatt_svc_chngd_ccc_write_cb" }

AttErrors ==
    { "", "INVALID_OFFSET", "INSUFFICIENT_RESOURCES", "INVALID_ATTRIBUTE_VALUE_LEN", "0x80" }

SendFor(res) ==
    /\ Len(res.sends) = 1
    /\ res.sends[1].fn = (IF res.indicate THEN "bt_gatt_server_send_indication"
                          ELSE "bt_gatt_server_send_notification")
    /\ res.sends[1].conf_cb = res.indicate

C14_SentHandleIsTyped ==
    slast.cb = "cmd_notify"
        => /\ slast.res.sends # <<>>
                => /\ slast.res.sends[1].handle = slast.typed
                   /\ slast.res.sends[1].handle \in 1..65535
           /\ (slast.typed = 0 \/ slast.typed > 65535) => slast.res.sends = <<>>

\* the attributes of the service that starts at handle start
AttrsOf(db, start) == { i \in DOMAIN db.attrs : db.attrs[i].service = start }

\* C15: while the server runs, in the database that populate_db built for it
\* at its creation every service holds as many
\* attributes as handles were reserved for it, all inside its range; handles
\* grow strictly in creation order; service ranges do not overlap; every
\* descriptor follows the value attribute of its characteristic with no
\* characteristic or service declaration in between.
C15_PopulateDbLayout ==
    LET db == populate_db
        attrs == db.attrs
    IN
    slast.cb # "abort" =>
    /\ \A s \in DOMAIN db.services :
          /\ Cardinality(AttrsOf(db, db.services[s].start))
                = db.services[s].end - db.services[s].start + 1
          /\ \A i \in AttrsOf(db, db.services[s].start) :
                attrs[i].handle \in db.services[s].start..db.services[s].end
    /\ \A i \in DOMAIN attrs : \E s \in DOMAIN db.services :
          attrs[i].service = db.services[s].start
    /\ \A i, j \in DOMAIN attrs : i < j => attrs[i].handle < attrs[j].handle
    /\ \A s, t \in DOMAIN db.services : s < t => db.services[s].end < db.services[t].start
    /\ \A i \in DOMAIN attrs :
          attrs[i].kind = "descriptor"
              => /\ i > 1
                 /\ attrs[i - 1].kind \in {"value", "descriptor"}
                 /\ attrs[i - 1].service = attrs[i].service

\* the server runs on a database of two services and ten attributes, with a
\* descriptor in front of a characteristic and one at the end of a service
C15_Witness ==
    LET attrs == populate_db.attrs IN
    /\ slast.cb # "server_create"
    /\ Len(populate_db.services) = 2 /\ Len(attrs) = 10
    /\ \E i \in DOMAIN attrs :
          attrs[i].kind = "descriptor" /\ attrs[i + 1].kind = "characteristic"
    /\ attrs[Len(attrs)].kind = "descriptor"

\* C16: a Device Name read at an offset up to name_len completes with
\* success and the bytes of the name from offset to name_len, a read at a
\* greater offset completes with INVALID_OFFSET; the name and name_len stay
\* as they were.
C16_ReadsNameFromOffset ==
    [][ slast'.cb = "gap_device_name_read_cb"
          => /\ device_name' = device_name /\ name_len' = name_len
             /\ IF slast'.offset <= name_len
                THEN /\ slast'.res.error = ""
                     /\ slast'.res.value = SubSeq(device_name, slast'.offset + 1, name_len)
                ELSE slast'.res.error = "INVALID_OFFSET" ]_vars

\* C17: a Device Name write at an offset up to name_len that completes with
\* success leaves the first offset bytes of the old name followed by the
\* written value, and name_len = offset + n; a write at a greater offset
\* completes with INVALID_OFFSET and leaves name and name_len as they were.
C17_WriteIsVariableLength ==
    [][ slast'.cb = "gap_device_name_write_cb"
          => IF slast'.offset > name_len
             THEN /\ slast'.res = "INVALID_OFFSET"
                  /\ device_name' = device_name /\ name_len' = name_len
             ELSE slast'.res = ""
                    => /\ name_len' = slast'.offset + Len(slast'.value)
                       /\ device_name' = SubSeq(device_name, 1, slast'.offset)
                                            \o slast'.value ]_vars

\* the characteristic that ptr points to among svcs
ChrcIn(svcs, ptr) == CHOOSE c \in AllChrcs(svcs) : Ptr(c) = ptr

\* the Value property as characteristic_property_get_value writes it
characteristic_property_get_value(chrc) ==
    IF chrc.value_known THEN chrc.value ELSE <<>>

C19_CccWriteErrors ==
    [][ slast'.cb = "gatt_svc_chngd_ccc_write_cb"
          => LET v == slast'.value
                 o == slast'.offset
                 fails(e) == slast'.res = e /\ svc_chngd_enabled' = svc_chngd_enabled
             IN /\ Len(v) # 2 => fails("INVALID_ATTRIBUTE_VALUE_LEN")
                /\ (Len(v) = 2 /\ o # 0) => fails("INVALID_OFFSET")
                /\ (Len(v) = 2 /\ o = 0 /\ v[1] \notin {0, 2}) => fails("0x80") ]_vars

\* a value of a wrong length written at a non-zero offset while enabled
C19_Witness ==
    /\ slast.cb = "gatt_svc_chngd_ccc_write_cb"
    /\ Len(slast.value) # 2 /\ slast.offset # 0
    /\ slast.res = "INVALID_ATTRIBUTE_VALUE_LEN"
    /\ svc_chngd_enabled

\* C20: after every step each characteristic has in_read set exactly when
\* one read started on it is in flight, and never more than one; a ReadValue
\* on a characteristic with in_read set is answered InProgress and starts
\* nothing; a ReadValue answered Failed starts nothing and leaves in_read
\* false; an accepted ReadValue sets in_read and starts one read.
C20_OneOutstandingRead ==
    [][ /\ \A c \in AllChrcs(services') :
              CopiesIn(Ptr(c), ops') = (IF c.in_read THEN 1 ELSE 0)
        /\ last'.cb = "characteristic_read_value"
              => LET old == ChrcIn(services, last'.a)
                     new == ChrcIn(services', last'.a)
                 IN /\ old.in_read
                         => last'.b = <<"InProgress">> /\ ops' = ops /\ new = old
                    /\ last'.b = <<"Failed">> => ~new.in_read /\ ops' = ops
                    /\ (~old.in_read /\ last'.b = <<>>)
                         => new.in_read /\ ops' = ops (+) SetToBag({last'.a}) ]_vars

\* C21: the idle callback set_chrcs_ready never runs on a client that
\* btd_gatt_client_destroy has freed.
C21_IdleNeverOnDestroyedClient ==
    last.cb = "set_chrcs_ready" => alive

\* the services of the mirror that start at a handle
MirrorOf(svcs, start_handle) == { k \in DOMAIN svcs : svcs[k].start_handle = start_handle }

\* C22: after a gatt_ready_cb, a service that create_services set out to
\* export (its path was free) and that was hit by a failed registration is
\* not in client->services and none of its paths is exported; one that was
\* not hit is in client->services with all its paths exported, whatever
\* happened to the other services; in every state every service of
\* client->services has its characteristics and descriptors exported.
C22_ExportAllOrNothing ==
    /\ last.cb = "gatt_ready_cb"
          => \A i \in DOMAIN last.a :
                LET s == last.a[i] IN
                s.start \in last.free
                  => IF s.start \in last.hit
                     THEN /\ PathsOfSvc(s) \cap exported = {}
                          /\ MirrorOf(services, s.start) = {}
                     ELSE /\ PathsOfSvc(s) \subseteq exported
                          /\ \E k \in MirrorOf(services, s.start) :
                                ShapeOfSvc(services[k]) = s
    /\ \A k \in DOMAIN services :
          PathsOfSvc(ShapeOfSvc(services[k])) \subseteq exported

\* of two services one was hit by a failure and the other is exported
C22_Witness ==
    /\ last.cb = "gatt_ready_cb"
    /\ last.a = <<SvcA, SvcB>> /\ last.hit = {1}
    /\ Shape(services) = <<SvcB>>
    /\ exported = PathsOfSvc(SvcB)

====
